---- MODULE Spec2Model ----
(***************************************************************************)
(* Request normalization, provider adapters and the retrying HTTP          *)
(* transport of the ai-providers client library.                           *)
(*                                                                         *)
(* Temperatures are float64 in the source.  They are modelled in tenths    *)
(* (7 is 0.7), with one extra value NaN that follows IEEE-754 ordering:    *)
(* every ordered comparison with NaN is false.                             *)
(* Optional (pointer) fields are sequences: <<>> is nil, <<v>> is &v.      *)
(* callerMem is the storage the caller's request points into: the values   *)
(* behind its two pointers and the backing arrays of its two slices.       *)
(* adapter is the provider of the adapter that was constructed, "" if none. *)
(* response is the HTTP response the transport handed to the adapter.      *)
(* wire is the HTTP request of the call: what Post built, the reader of    *)
(* its body, the request handed to httpClient.Do at each attempt and the   *)
(* number of response bodies that are open.                               *)
(* shared is the state held by the client, its adapter and the transport;  *)
(* calls are the calls running concurrently on that one client.            *)
(* util is one call of a utility function: its inputs and what it returned. *)
(***************************************************************************)
EXTENDS Integers, Sequences, FiniteSets, TLC

VARIABLES provider, config, pc, op, req, normalized, renormalized,
          adapterCalls, attempt, history, cancelled, slept, result,
          callerMem, adapter, response,
          wire, shared, calls, util

vars == <<provider, config, pc, op, req, normalized, renormalized,
          adapterCalls, attempt, history, cancelled, slept, result,
          callerMem, adapter, response,
          wire, shared, calls, util>>

(***************************************************************************)
(* Bounds of the model.                                                    *)
(***************************************************************************)
MaxRetriesBound == 3
MaxMsgs == 2
MaxStopExtra == 1

(***************************************************************************)
(* Program constants.                                                      *)
(***************************************************************************)
ProviderOpenAI == "openai"
ProviderAnthropic == "anthropic"
ProviderGoogle == "google"

DefaultMaxRetries == 3
OpenAIMaxTokenLimit == 4096
AnthropicMaxTokenLimit == 100000
GoogleTokenLimit == 8192
DefaultMaxTokens == 1024
BackoffCapSeconds == 30
DefaultRetryAfter == 60
AnthropicMaxSystemMessages == 5

NaN == 99999

(***************************************************************************)
(* float64 comparisons (tenths, NaN unordered).                            *)
(***************************************************************************)
FLt(a, b) == a # NaN /\ b # NaN /\ a < b
FGt(a, b) == a # NaN /\ b # NaN /\ a > b
FLe(a, b) == a # NaN /\ b # NaN /\ a <= b
FGe(a, b) == a # NaN /\ b # NaN /\ a >= b

BlankStrings == {"", " "}

TrimSpaceIsEmpty(s) == s \in BlankStrings

(***************************************************************************)
(* internal/utils: provider limits.                                        *)
(***************************************************************************)
GetProviderTokenLimit(p) ==
    CASE p = ProviderOpenAI -> OpenAIMaxTokenLimit
      [] p = ProviderAnthropic -> AnthropicMaxTokenLimit
      [] p = ProviderGoogle -> GoogleTokenLimit
      [] OTHER -> 4096

GetProviderMaxTemperature(p) ==
    CASE p = ProviderOpenAI -> 20
      [] p = ProviderAnthropic -> 10
      [] p = ProviderGoogle -> 10
      [] OTHER -> 10

GetProviderMaxStopSequences(p) ==
    CASE p = ProviderOpenAI -> 4
      [] p = ProviderAnthropic -> 10
      [] p = ProviderGoogle -> 5
      [] OTHER -> 4

GetDefaultMaxTokens(p) == DefaultMaxTokens

(***************************************************************************)
(* internal/utils: structural validation.  "" is the nil error.            *)
(***************************************************************************)
ValidRoles == {"user", "assistant", "system"}

ValidateMessage(msg) ==
    IF TrimSpaceIsEmpty(msg.Role) THEN "role is required"
    ELSE IF TrimSpaceIsEmpty(msg.Content) THEN "content is required"
    ELSE IF msg.Role \notin ValidRoles THEN "invalid role"
    ELSE ""

ValidateNumericFields(r) ==
    IF r.Temperature # <<>> /\ FLt(r.Temperature[1], 0)
        THEN "temperature must be non-negative"
    ELSE IF r.MaxTokens # <<>> /\ r.MaxTokens[1] <= 0
        THEN "max_tokens must be positive"
    ELSE ""

ValidateCompletionRequest(r) ==
    IF TrimSpaceIsEmpty(r.Prompt) THEN "prompt is required and cannot be empty"
    ELSE ValidateNumericFields(r)

ValidateChatRequest(r) ==
    IF Len(r.Messages) = 0 THEN "messages are required"
    ELSE LET bad == {i \in 1..Len(r.Messages) : ValidateMessage(r.Messages[i]) # ""}
         IN IF bad # {}
              THEN ValidateMessage(r.Messages[CHOOSE i \in bad : \A j \in bad : i <= j])
              ELSE ValidateNumericFields(r)

(***************************************************************************)
(* client.validateConversationStructure                                    *)
(***************************************************************************)
RECURSIVE ConvScan(_, _, _)
ConvScan(messages, i, lastNonSystemRole) ==
    IF i > Len(messages) THEN ""
    ELSE LET role == messages[i].Role IN
         IF role = "system" THEN ConvScan(messages, i + 1, lastNonSystemRole)
         ELSE IF role = "user" THEN ConvScan(messages, i + 1, "user")
         ELSE IF role = "assistant"
              THEN IF lastNonSystemRole = ""
                     THEN "conversation cannot start with assistant message"
                     ELSE ConvScan(messages, i + 1, "assistant")
         ELSE ConvScan(messages, i + 1, lastNonSystemRole)

SystemMessageCount(messages) ==
    Cardinality({i \in 1..Len(messages) : messages[i].Role = "system"})

validateConversationStructure_CountFirst(p, messages) ==
    IF Len(messages) = 0 THEN "conversation must have at least one message"
    ELSE IF p = ProviderAnthropic /\ SystemMessageCount(messages) > AnthropicMaxSystemMessages
        THEN "too many system messages"
    ELSE ConvScan(messages, 1, "")

validateConversationStructure(p, messages) ==
    IF Len(messages) = 0 THEN "conversation must have at least one message"
    ELSE IF ConvScan(messages, 1, "") # "" THEN ConvScan(messages, 1, "")
    ELSE IF p = ProviderAnthropic /\ SystemMessageCount(messages) > AnthropicMaxSystemMessages
        THEN "too many system messages"
    ELSE ""

(***************************************************************************)
(* internal/utils: clamping.                                               *)
(***************************************************************************)
ClampTemperature_Halving(t, p) ==
    IF t = <<>> THEN <<>>
    ELSE LET maxTemp == GetProviderMaxTemperature(p)
             t1 == IF FGt(t[1], maxTemp) THEN t[1] \div 2 ELSE t[1]
             t2 == IF FLt(t1, 0) THEN 0 ELSE t1
         IN <<t2>>

ClampTemperature(t, p) ==
    IF t = <<>> THEN <<>>
    ELSE LET maxTemp == GetProviderMaxTemperature(p)
             t1 == IF FGt(t[1], maxTemp) THEN maxTemp ELSE t[1]
             t2 == IF FLt(t1, 0) THEN 0 ELSE t1
         IN <<t2>>

ClampMaxTokens(m, p) ==
    IF m = <<>> THEN <<>>
    ELSE LET maxTokens == GetProviderTokenLimit(p)
             k1 == IF m[1] > maxTokens THEN maxTokens ELSE m[1]
             k2 == IF k1 <= 0 THEN GetDefaultMaxTokens(p) ELSE k1
         IN <<k2>>

(* the slice kept is the tail, not the head *)
ClampStop_Tail(stop, p) ==
    LET maxStop == GetProviderMaxStopSequences(p)
    IN IF Len(stop) > maxStop
         THEN SubSeq(stop, Len(stop) - maxStop + 1, Len(stop)) ELSE stop

ClampStop(stop, p) ==
    LET maxStop == GetProviderMaxStopSequences(p)
    IN IF Len(stop) > maxStop THEN SubSeq(stop, 1, maxStop) ELSE stop

clampCompletionRequest(r, p) ==
    [r EXCEPT !.Temperature = ClampTemperature(r.Temperature, p),
              !.MaxTokens = ClampMaxTokens(r.MaxTokens, p),
              !.Stop = ClampStop(r.Stop, p)]

clampChatRequest(r, p) ==
    [r EXCEPT !.Temperature = ClampTemperature(r.Temperature, p),
              !.MaxTokens = ClampMaxTokens(r.MaxTokens, p)]

(***************************************************************************)
(* client: default-fill from the Config.                                   *)
(***************************************************************************)
DefaultFill_Clamping(r, p, c) ==
    LET t == IF r.Temperature = <<>> /\ c.Temperature # <<>>
               THEN ClampTemperature(c.Temperature, p) ELSE r.Temperature
        m == IF r.MaxTokens = <<>> /\ c.MaxTokens # <<>>
               THEN ClampMaxTokens(c.MaxTokens, p) ELSE r.MaxTokens
    IN [r EXCEPT !.Temperature = t, !.MaxTokens = m]

DefaultFill(r, p, c) ==
    LET t == IF r.Temperature = <<>> /\ c.Temperature # <<>>
                  /\ FGe(c.Temperature[1], 0)
                  /\ FLe(c.Temperature[1], GetProviderMaxTemperature(p))
               THEN c.Temperature ELSE r.Temperature
        m == IF r.MaxTokens = <<>> /\ c.MaxTokens # <<>>
                  /\ c.MaxTokens[1] > 0
                  /\ c.MaxTokens[1] <= GetProviderTokenLimit(p)
               THEN c.MaxTokens ELSE r.MaxTokens
    IN [r EXCEPT !.Temperature = t, !.MaxTokens = m]

(***************************************************************************)
(* client.validateAndNormalize{Completion,Chat}Request.                    *)
(* The result is [err, req]: on error the request is returned as given.    *)
(***************************************************************************)
validateAndNormalizeCompletionRequest(p, c, r) ==
    IF ValidateCompletionRequest(r) # ""
      THEN [err |-> ValidateCompletionRequest(r), req |-> r]
      ELSE [err |-> "", req |-> DefaultFill(clampCompletionRequest(r, p), p, c)]

(* the conversation-structure check runs before the structural validation *)
validateAndNormalizeChatRequest_StructureFirst(p, c, r) ==
    IF validateConversationStructure(p, r.Messages) # ""
      THEN [err |-> validateConversationStructure(p, r.Messages), req |-> r]
    ELSE IF ValidateChatRequest(r) # ""
      THEN [err |-> ValidateChatRequest(r), req |-> r]
    ELSE [err |-> "", req |-> DefaultFill(clampChatRequest(r, p), p, c)]

validateAndNormalizeChatRequest(p, c, r) ==
    IF ValidateChatRequest(r) # ""
      THEN [err |-> ValidateChatRequest(r), req |-> r]
    ELSE IF validateConversationStructure(p, r.Messages) # ""
      THEN [err |-> validateConversationStructure(p, r.Messages), req |-> r]
    ELSE [err |-> "", req |-> DefaultFill(clampChatRequest(r, p), p, c)]

Normalize(o, p, c, r) ==
    IF o = "Complete" THEN validateAndNormalizeCompletionRequest(p, c, r)
    ELSE validateAndNormalizeChatRequest(p, c, r)

(***************************************************************************)
(* What normalization stores into the caller's storage.  The request is    *)
(* passed by value; clamping loads *Temperature and *MaxTokens into locals *)
(* temp and tokens, points its own copy at those locals and reslices Stop: *)
(* nothing is stored through a pointer of the caller or into a backing     *)
(* array.  Default-fill assigns fields of the copy only.                   *)
(***************************************************************************)
MemOf(r) ==
    [Temperature |-> r.Temperature, MaxTokens |-> r.MaxTokens,
     Stop |-> r.Stop, Messages |-> r.Messages]

clampStores_InPlace(mem, p) ==
    [mem EXCEPT !.Temperature = ClampTemperature(mem.Temperature, p),
                !.MaxTokens = ClampMaxTokens(mem.MaxTokens, p)]

clampStores(mem, p) == mem

NormalizeStores(o, p, c, r) ==
    IF Normalize(o, p, c, r).err # "" THEN MemOf(r)
    ELSE clampStores(MemOf(r), p)

(***************************************************************************)
(* types.Config and its validation.  API keys are drawn from a fixed set   *)
(* of shapes; KeyLen and the prefix tests give what the code asks of them. *)
(***************************************************************************)
KeyBlank == " "
KeyShort == "sk-short"
KeyOpenAI == "sk-1234567890abcdef1234567890abcdef"
KeyAnthropic == "sk-ant-REDACTED"
KeyPlain == "AIzaSy1234567890abcdef1234567890abcdef"

APIKeys == {"", KeyBlank, KeyShort, KeyOpenAI, KeyAnthropic, KeyPlain}

KeyLen(k) ==
    CASE k = "" -> 0
      [] k = KeyBlank -> 0
      [] k = KeyShort -> 8
      [] k = KeyOpenAI -> 35
      [] k = KeyAnthropic -> 39
      [] k = KeyPlain -> 38

HasPrefixSk(k) == k \in {KeyShort, KeyOpenAI, KeyAnthropic}
HasPrefixSkAnt(k) == k = KeyAnthropic

KnownProviders == {ProviderOpenAI, ProviderAnthropic, ProviderGoogle}

ValidateProviderType(p) ==
    IF p \in KnownProviders THEN "" ELSE "unsupported provider"

validateAPIKeyFormat(c, p) ==
    CASE p = ProviderOpenAI ->
           IF ~HasPrefixSk(c.APIKey) THEN "OpenAI API key should start with 'sk-'"
           ELSE IF KeyLen(c.APIKey) < 20 THEN "OpenAI API key appears to be too short"
           ELSE ""
      [] p = ProviderAnthropic ->
           IF ~HasPrefixSkAnt(c.APIKey) THEN "Anthropic API key should start with 'sk-ant-'"
           ELSE IF KeyLen(c.APIKey) < 20 THEN "Anthropic API key appears to be too short"
           ELSE ""
      [] p = ProviderGoogle ->
           IF KeyLen(c.APIKey) < 20 THEN "Google API key appears to be too short"
           ELSE ""
      [] OTHER -> ""

ConfigValidate(c, p) ==
    IF TrimSpaceIsEmpty(c.APIKey) THEN "API key is required"
    ELSE IF ValidateProviderType(p) # "" THEN ValidateProviderType(p)
    ELSE IF validateAPIKeyFormat(c, p) # "" THEN validateAPIKeyFormat(c, p)
    ELSE IF c.Timeout < 0 THEN "timeout must be non-negative"
    ELSE IF c.MaxRetries < 0 THEN "max retries must be non-negative"
    ELSE IF c.Temperature # <<>>
            /\ (FLt(c.Temperature[1], 0) \/ FGt(c.Temperature[1], 20))
        THEN "temperature must be between 0.0 and 2.0"
    ELSE IF c.MaxTokens # <<>> /\ c.MaxTokens[1] <= 0
        THEN "max tokens must be positive"
    ELSE IF c.MaxTokens # <<>> /\ c.MaxTokens[1] > GetProviderTokenLimit(p)
        THEN "max tokens exceeds provider limit"
    ELSE ""

(* Validate has a value receiver: the default timeout it fills in is      *)
(* stored in its own copy of the Config, the caller's Config stays as it is *)
ConfigAfterValidate(c, p) == c

(***************************************************************************)
(* adapters: validateConfig of the OpenAI and the Anthropic adapter.       *)
(***************************************************************************)
AdapterMaxTemperature(p) == IF p = ProviderOpenAI THEN 20 ELSE 10

AdapterMaxTokenLimit(p) ==
    IF p = ProviderOpenAI THEN OpenAIMaxTokenLimit ELSE AnthropicMaxTokenLimit

validateConfig(c, p) ==
    IF TrimSpaceIsEmpty(c.APIKey) THEN "API key is required"
    ELSE IF validateAPIKeyFormat(c, p) # "" THEN validateAPIKeyFormat(c, p)
    ELSE IF c.Timeout < 0 THEN "timeout must be non-negative"
    ELSE IF c.MaxRetries < 0 THEN "max retries must be non-negative"
    ELSE IF c.Temperature # <<>>
            /\ (FLt(c.Temperature[1], 0)
                  \/ FGt(c.Temperature[1], AdapterMaxTemperature(p)))
        THEN "temperature out of range"
    ELSE IF c.MaxTokens # <<>> /\ c.MaxTokens[1] <= 0
        THEN "max tokens must be positive"
    ELSE IF c.MaxTokens # <<>> /\ c.MaxTokens[1] > AdapterMaxTokenLimit(p)
        THEN "max tokens exceeds limit"
    ELSE ""

(***************************************************************************)
(* NewClient: the kind of the error it returns, "" when a client is built. *)
(***************************************************************************)
CreateAdapter_GoogleUnsupported(p, c) ==
    IF ValidateProviderType(p) # "" \/ p = ProviderGoogle THEN "validation"
    ELSE IF validateConfig(c, p) # "" THEN "provider"
    ELSE ""

CreateAdapter(p, c) ==
    IF ValidateProviderType(p) # "" THEN "validation"
    ELSE IF p = ProviderGoogle THEN "provider"
    ELSE IF validateConfig(c, p) # "" THEN "provider"
    ELSE ""

NewClient(p, c) ==
    IF p \notin KnownProviders THEN "validation"
    ELSE IF ConfigValidate(c, p) # "" THEN "validation"
    ELSE IF CreateAdapter(p, c) # "" THEN CreateAdapter(p, c)
    ELSE IF validateConfig(c, p) # "" THEN "validation"
    ELSE ""

(* the Message of the error of CreateAdapter and of NewClient *)
CreateAdapterMessage(p, c) ==
    IF ValidateProviderType(p) # "" THEN ValidateProviderType(p)
    ELSE IF p = ProviderGoogle THEN "Google adapter not yet implemented"
    ELSE IF validateConfig(c, p) # "" THEN "failed to create adapter"
    ELSE ""

NewClientMessage(p, c) ==
    IF p \notin KnownProviders THEN "unsupported provider"
    ELSE IF ConfigValidate(c, p) # "" THEN "invalid configuration"
    ELSE IF CreateAdapter(p, c) # "" THEN CreateAdapterMessage(p, c)
    ELSE IF validateConfig(c, p) # "" THEN "adapter validation failed"
    ELSE ""

(* the adapter NewAdapter has constructed when CreateAdapter / NewClient   *)
(* return: NewAdapter runs validateConfig before it builds anything        *)
CreateAdapterBuilt(p, c) == IF CreateAdapter(p, c) = "" THEN p ELSE ""

NewClientBuilt(p, c) ==
    IF p \in KnownProviders /\ ConfigValidate(c, p) = ""
      THEN CreateAdapterBuilt(p, c) ELSE ""

(***************************************************************************)
(* NewAdapter: the retry bound handed to the transport client.             *)
(***************************************************************************)
NewAdapterMaxRetries(c) ==
    IF c.MaxRetries = 0 THEN DefaultMaxRetries ELSE c.MaxRetries

(***************************************************************************)
(* internal/http: retry decisions and backoff.                             *)
(* Outcomes of httpClient.Do: an HTTP status, or one of two errors.        *)
(***************************************************************************)
NetErr == 0
CtxErr == -1

shouldRetryError(e) == TRUE

shouldRetryStatus_No503(statusCode) ==
    CASE statusCode = 429 -> TRUE
      [] statusCode \in {500, 502, 504} -> TRUE
      [] OTHER -> FALSE

shouldRetryStatus_Any5xx(statusCode) ==
    CASE statusCode = 429 -> TRUE
      [] statusCode >= 500 /\ statusCode <= 599 -> TRUE
      [] OTHER -> FALSE

shouldRetryStatus(statusCode) ==
    CASE statusCode = 429 -> TRUE
      [] statusCode \in {500, 502, 503, 504} -> TRUE
      [] OTHER -> FALSE

(* time.Second is 10^9 ns = 2^9 * 1953125, and an int64 holds 63 bits of   *)
(* magnitude                                                               *)
SecondOddFactor == 1953125

SecondTwoExponent == 9

Int64Bits == 64

(* the seconds slept before the retry that follows attempt a.  The backoff *)
(* is the int64 product (1 << a) * 10^9 ns, which wraps modulo 2^64: its   *)
(* low 64 bits are 2^(a+9) * (1953125 mod 2^(55-a)), zero from a = 55 on.  *)
(* Up to a = 33 (1953125 < 2^21) the product is exact and is compared to   *)
(* the cap in seconds.  Beyond, a product with the sign bit                *)
(* set is negative: it is not above the cap and time.Sleep returns at      *)
(* once; a positive one is at least 2^43 ns and is capped.                 *)
waitBeforeRetry(a) ==
    LET k == Int64Bits - SecondTwoExponent - a IN
    IF k >= 22
      THEN IF a >= 31 \/ 2 ^ a > BackoffCapSeconds
             THEN BackoffCapSeconds ELSE 2 ^ a
    ELSE IF k <= 0 THEN 0
    ELSE IF SecondOddFactor % (2 ^ k) >= 2 ^ (k - 1) THEN 0
    ELSE BackoffCapSeconds

(***************************************************************************)
(* Errors and results.  A result is what Complete/ChatComplete returns:    *)
(* ok, or an error that is either a classified Error value (kind, prov)    *)
(* or a plain error; cause is the innermost error reachable by Unwrap.     *)
(***************************************************************************)
ErrorKinds == {"validation", "authentication", "rate_limit", "network",
               "provider", "token_limit"}

NoUsage == [PromptTokens |-> 0, CompletionTokens |-> 0, TotalTokens |-> 0]

NoResult ==
    [ok |-> FALSE, classified |-> FALSE, kind |-> "", prov |-> "",
     cause |-> "", status |-> 0, retryAfter |-> <<>>, attempts |-> 0,
     msg |-> "", usage |-> NoUsage]

OkResult(s) == [NoResult EXCEPT !.ok = TRUE, !.status = s]

ClassifiedError(k, p, s, cause) ==
    [NoResult EXCEPT !.classified = TRUE, !.kind = k, !.prov = p,
                     !.status = s, !.cause = cause]

PlainError(cause, s, n) ==
    [NoResult EXCEPT !.cause = cause, !.status = s, !.attempts = n]

(* the Error that Complete/ChatComplete build around a normalization error *)
RequestValidationFailed_Unclassified(p) == PlainError("validation", 0, 0)

RequestValidationFailed(p) == ClassifiedError("validation", p, 0, "validation")

(* the same Error with the normalization error it wraps as its message *)
NormalizationFailed(p, err) == [RequestValidationFailed(p) EXCEPT !.msg = err]

MapHTTPStatusToErrorType(statusCode) ==
    IF statusCode = 401 \/ statusCode = 403 THEN "authentication"
    ELSE IF statusCode = 429 THEN "rate_limit"
    ELSE IF statusCode >= 400 /\ statusCode < 500 THEN "validation"
    ELSE IF statusCode >= 500 THEN "provider"
    ELSE "network"

IsRetryable(kind) == kind \in {"rate_limit", "network"}

(***************************************************************************)
(* adapters: parseErrorResponse and the tail of Complete/ChatComplete.     *)
(***************************************************************************)
getRetryAfter(header) == <<DefaultRetryAfter>>

AdapterErrorKind(statusCode) ==
    CASE statusCode \in {401, 403} -> "authentication"
      [] statusCode = 429 -> "rate_limit"
      [] statusCode = 400 -> "validation"
      [] OTHER -> "provider"

parseErrorResponse(p, statusCode, parsable, header) ==
    IF ~parsable THEN PlainError("", statusCode, 0)
    ELSE [ClassifiedError(AdapterErrorKind(statusCode), p, statusCode, "")
            EXCEPT !.retryAfter = IF statusCode = 429
                                    THEN getRetryAfter(header) ELSE <<>>]

AdapterHandleResponse(p, statusCode, parsable, header) ==
    IF statusCode # 200 THEN parseErrorResponse(p, statusCode, parsable, header)
    ELSE IF ~parsable THEN PlainError("json", statusCode, 0)
    ELSE OkResult(statusCode)

(***************************************************************************)
(* adapters: the Usage of a normalized response.  u is the usage object of *)
(* the body (prompt/input, completion/output and, for OpenAI bodies,       *)
(* total_tokens): the OpenAI adapter copies all three fields, the          *)
(* Anthropic adapter adds the first two.                                   *)
(***************************************************************************)
normalizeResponseUsage(p, u) ==
    IF p = ProviderOpenAI THEN u
    ELSE [u EXCEPT !.TotalTokens = u.PromptTokens + u.CompletionTokens]

AdapterReturn(p, resp) ==
    LET r == AdapterHandleResponse(p, resp.status, resp.parsable, resp.header)
    IN IF r.ok THEN [r EXCEPT !.usage = normalizeResponseUsage(p, resp.usage)]
       ELSE r

(***************************************************************************)
(* adapters: the temperature put on the wire; json.Marshal rejects NaN.    *)
(***************************************************************************)
WireTemperature(p, c, r) ==
    IF r.Temperature # <<>>
      THEN LET t1 == IF FLt(r.Temperature[1], 0) THEN 0 ELSE r.Temperature[1]
               t2 == IF FGt(t1, AdapterMaxTemperature(p))
                       THEN AdapterMaxTemperature(p) ELSE t1
           IN <<t2>>
    ELSE IF c.Temperature # <<>> /\ FGe(c.Temperature[1], 0)
              /\ FLe(c.Temperature[1], AdapterMaxTemperature(p))
      THEN c.Temperature
    ELSE <<>>

MarshalFails(p, c, r) == WireTemperature(p, c, r) = <<NaN>>

(***************************************************************************)
(* The state machine of one Complete/ChatComplete call.                    *)
(***************************************************************************)
Statuses == {200, 201, 400, 401, 403, 404, 429, 500, 501, 502, 503, 504, 599}

Headers == {0, 5, 60}

BodyUsage(p, c, t) ==
    [PromptTokens |-> p, CompletionTokens |-> c, TotalTokens |-> t]

(* the usage object of a well-formed 200 body; other bodies carry none *)
BodyUsages == {BodyUsage(3, 4, 7), BodyUsage(3, 4, 0), BodyUsage(3, 4, 9)}

Response(s, parsable, header, usage) ==
    [status |-> s, parsable |-> parsable, header |-> header, usage |-> usage]

NoResponse == Response(0, FALSE, 0, NoUsage)

Msg(role, content) == [Role |-> role, Content |-> content]

CompletionReq(prompt, t, m, stop) ==
    [Prompt |-> prompt, Messages |-> <<>>, Temperature |-> t,
     MaxTokens |-> m, Stop |-> stop, Stream |-> FALSE]

ChatReq(msgs, t, m) ==
    [Prompt |-> "", Messages |-> msgs, Temperature |-> t,
     MaxTokens |-> m, Stop |-> <<>>, Stream |-> FALSE]

NoReq == CompletionReq("", <<>>, <<>>, <<>>)

(***************************************************************************)
(* adapters: the request put on the wire.  A text is the sequence of its   *)
(* non-empty pieces: "" is <<>> and concatenation is \o.                   *)
(***************************************************************************)
Separator == "\n\n"

AnthropicDefaultMaxTokens == 1024

APIVersion == "2023-06-01"

Text(s) == IF s = "" THEN <<>> ELSE <<s>>

WireMsg(role, content) == [Role |-> role, Content |-> content]

WireBody(prompt, msgs, system, m, t, stop) ==
    [Prompt |-> prompt, Messages |-> msgs, System |-> system,
     MaxTokens |-> m, Temperature |-> t, Stop |-> stop]

(* what io.ReadAll returns on a reader at its end: no bytes *)
EmptyBody == WireBody(<<>>, <<>>, <<>>, <<>>, <<>>, <<>>)

AnthropicWireMaxTokens(c, r) ==
    IF r.MaxTokens # <<>>
      THEN IF r.MaxTokens[1] > AnthropicMaxTokenLimit
             THEN <<AnthropicMaxTokenLimit>> ELSE r.MaxTokens
    ELSE IF c.MaxTokens # <<>> /\ c.MaxTokens[1] > 0
              /\ c.MaxTokens[1] <= AnthropicMaxTokenLimit
      THEN c.MaxTokens
    ELSE <<AnthropicDefaultMaxTokens>>

OpenAIWireMaxTokens(c, r) ==
    IF r.MaxTokens # <<>>
      THEN LET tokens == IF r.MaxTokens[1] > OpenAIMaxTokenLimit
                           THEN OpenAIMaxTokenLimit ELSE r.MaxTokens[1]
           IN IF tokens > 0 THEN <<tokens>> ELSE <<>>
    ELSE IF c.MaxTokens # <<>> /\ c.MaxTokens[1] > 0
              /\ c.MaxTokens[1] <= OpenAIMaxTokenLimit
      THEN c.MaxTokens
    ELSE <<>>

mapCompletionRequest(p, c, r) ==
    IF p = ProviderOpenAI
      THEN WireBody(Text(r.Prompt), <<>>, <<>>, OpenAIWireMaxTokens(c, r),
                    WireTemperature(p, c, r), r.Stop)
      ELSE WireBody(<<>>, <<WireMsg("user", Text(r.Prompt))>>, <<>>,
                    AnthropicWireMaxTokens(c, r), WireTemperature(p, c, r),
                    r.Stop)

(* systemMessage after one more system message: only the last one kept *)
JoinSystem_Overwrite(systemMessage, content) == Text(content)

(* systemMessage after one more system message *)
JoinSystem(systemMessage, content) ==
    IF systemMessage = <<>> THEN Text(content)
    ELSE systemMessage \o <<Separator>> \o Text(content)

(* the loop of mapChatRequest over the messages left to convert *)
RECURSIVE mapChatMessages(_, _, _)
mapChatMessages(msgs, systemMessage, messages) ==
    IF msgs = <<>> THEN [System |-> systemMessage, Messages |-> messages]
    ELSE LET msg == Head(msgs) IN
         IF msg.Role = "system"
           THEN mapChatMessages(Tail(msgs),
                                JoinSystem(systemMessage, msg.Content), messages)
         ELSE IF msg.Role \in {"user", "assistant"}
           THEN mapChatMessages(Tail(msgs), systemMessage,
                    Append(messages, WireMsg(msg.Role, Text(msg.Content))))
         ELSE mapChatMessages(Tail(msgs), systemMessage,
                    Append(messages,
                           WireMsg("user", <<"[">> \o Text(msg.Role) \o <<"]: ">>
                                               \o Text(msg.Content))))

mapChatRequest(c, r) ==
    LET m == mapChatMessages(r.Messages, <<>>, <<>>) IN
    WireBody(<<>>, m.Messages, m.System, AnthropicWireMaxTokens(c, r),
             WireTemperature(ProviderAnthropic, c, r), <<>>)

DefaultBaseURL(p) ==
    IF p = ProviderOpenAI THEN "https://api.openai.com/v1"
    ELSE "https://api.anthropic.com/v1"

Endpoint(p, o) ==
    IF p = ProviderOpenAI THEN "/completions" ELSE "/messages"

(* the header map makeRequest hands to Post *)
AdapterHeaders(p, apiKey) ==
    IF p = ProviderOpenAI
      THEN [Authorization |-> <<"Bearer ", apiKey>>,
            ContentType |-> "application/json"]
      ELSE [XApiKey |-> apiKey, AnthropicVersion |-> APIVersion,
            ContentType |-> "application/json"]

(***************************************************************************)
(* internal/http: the request of one Post and its body reader.  A reader   *)
(* is <<b>> while the bytes b are unread and <<>> once it was read to its  *)
(* end.                                                                    *)
(***************************************************************************)
HTTPRequest(method, url, headers, body) ==
    [method |-> method, url |-> url, headers |-> headers, body |-> body]

NoWire ==
    [request |-> HTTPRequest("", <<>>, <<>>, EmptyBody), reader |-> <<>>,
     sent |-> <<>>, open |-> 0]

(* makeRequest and Post up to the call of doWithRetry *)
Post(p, o, c, r) ==
    LET jsonBody == IF o = "Complete" THEN mapCompletionRequest(p, c, r)
                    ELSE mapChatRequest(c, r)
    IN [request |-> HTTPRequest("POST", <<DefaultBaseURL(p), Endpoint(p, o)>>,
                                AdapterHeaders(p, c.APIKey), jsonBody),
        reader |-> <<jsonBody>>, sent |-> <<>>, open |-> 0]

ReadAll(reader) == IF reader = <<>> THEN EmptyBody ELSE reader[1]

(* req.Body after the iteration: left at its end, never rebuilt *)
ResetBody_Consumed(body) == <<>>

(* req.Body after the iteration: a fresh reader over the bytes read *)
ResetBody(body) == <<body>>

(* req.Clone with its body replaced by a reader over the bytes read *)
Clone(request, body) == [request EXCEPT !.body = body]

(* the retried response is dropped without closing its body *)
closeRetriedBody_Leak(open) == open

(* resp.Body.Close() before the wait of a retried response *)
closeRetriedBody(open) == open - 1

(* defer resp.Body.Close() of Complete and ChatComplete *)
deferBodyClose(open) == open - 1

(* one iteration of doWithRetry on the request: outcome is what            *)
(* httpClient.Do answered, retried whether the response is retried; a      *)
(* response that is not retried goes to the adapter, which closes its body *)
WireAfterAttempt(w, outcome, retried) ==
    LET body == ReadAll(w.reader) IN
    [w EXCEPT !.reader = ResetBody(body),
              !.sent = Append(@, Clone(w.request, body)),
              !.open = IF outcome \in {NetErr, CtxErr} THEN @
                       ELSE IF retried THEN closeRetriedBody(@ + 1)
                       ELSE deferBodyClose(@ + 1)]

(* the fields held by the client, its adapter and the transport client *)
ClientState(p, c) ==
    [provider |-> p, config |-> c, baseURL |-> DefaultBaseURL(p),
     apiKey |-> c.APIKey, maxRetries |-> NewAdapterMaxRetries(c)]

(***************************************************************************)
(* internal/utils: ParameterMapper.  Dividing by 2.0 is exact on the       *)
(* temperatures of the model, which are even tenths above 1.0.             *)
(***************************************************************************)
MapTemperature(sourceProvider, targetProvider, temperature) ==
    IF targetProvider \in {ProviderAnthropic, ProviderGoogle}
         /\ sourceProvider = ProviderOpenAI /\ FGt(temperature, 10)
      THEN temperature \div 2
    ELSE IF targetProvider \in {ProviderAnthropic, ProviderGoogle}
              /\ FGt(temperature, 10)
      THEN 10
    ELSE IF targetProvider = ProviderOpenAI /\ FGt(temperature, 20)
      THEN 20
    ELSE IF FLt(temperature, 0) THEN 0
    ELSE temperature

MapStopSequences(targetProvider, stopSequences) ==
    LET maxStop == GetProviderMaxStopSequences(targetProvider) IN
    IF Len(stopSequences) <= maxStop THEN stopSequences
    ELSE SubSeq(stopSequences, 1, maxStop)

NoOut ==
    [temperature |-> <<>>, stop |-> <<>>, wait |-> <<>>, body |-> EmptyBody]

UtilInput(src, tgt, t, st, a, msgs) ==
    [fn |-> "", source |-> src, target |-> tgt, temperature |-> t,
     stop |-> st, attempt |-> a, messages |-> msgs, out |-> NoOut]

NoUtil == UtilInput("", "", 0, <<>>, 0, <<>>)

CallCompletionRequests ==
    {CompletionReq(pr, t, <<>>, <<>>) :
        pr \in {"", "hi"}, t \in {<<>>, <<7>>, <<25>>, <<NaN>>}}

CallChatRequests ==
    {ChatReq(ms, <<>>, <<>>) :
        ms \in {<<>>, <<Msg("user", "x")>>, <<Msg("assistant", "x")>>,
                <<Msg("system", "x"), Msg("user", "x")>>,
                <<Msg("system", "x")>>, <<Msg("tool", "x")>>}}

CallConfigs ==
    {[APIKey |-> k, Timeout |-> 0, MaxRetries |-> n,
      Temperature |-> <<>>, MaxTokens |-> <<>>] :
        k \in {KeyOpenAI, KeyAnthropic}, n \in 0..MaxRetriesBound}

Init ==
    /\ provider \in KnownProviders
    /\ config \in CallConfigs
    /\ NewClient(provider, config) = ""
    /\ pc = "idle"
    /\ op = ""
    /\ req = NoReq
    /\ normalized = NoReq
    /\ renormalized = NoReq
    /\ adapterCalls = 0
    /\ attempt = 0
    /\ history = <<>>
    /\ cancelled = FALSE
    /\ slept = <<>>
    /\ result = NoResult
    /\ callerMem = MemOf(NoReq)
    /\ adapter = provider
    /\ response = NoResponse
    /\ wire = NoWire
    /\ shared = ClientState(provider, config)
    /\ calls = <<>>
    /\ util = NoUtil

(* client.Complete / client.ChatComplete up to the first httpClient.Do *)
Call(o, r) ==
    /\ pc = "idle"
    /\ op' = o
    /\ req' = r
    /\ LET n == Normalize(o, provider, config, r) IN
       IF n.err # ""
         THEN /\ result' = NormalizationFailed(provider, n.err)
              /\ pc' = "done"
              /\ UNCHANGED <<normalized, adapterCalls, wire>>
         ELSE /\ normalized' = n.req
              /\ adapterCalls' = adapterCalls + 1
              /\ IF provider = ProviderOpenAI /\ o = "ChatComplete"
                   THEN /\ result' = PlainError("", 0, 0)
                        /\ pc' = "done"
                        /\ wire' = wire
                   ELSE IF MarshalFails(provider, config, n.req)
                   THEN /\ result' = PlainError("json", 0, 0)
                        /\ pc' = "done"
                        /\ wire' = wire
                   ELSE /\ result' = result
                        /\ pc' = "attempt"
                        /\ wire' = Post(provider, o, config, n.req)
    /\ callerMem' = NormalizeStores(o, provider, config, r)
    /\ UNCHANGED <<provider, config, renormalized, attempt, history,
                   cancelled, slept, adapter, response,
                   shared, calls, util>>

CallComplete == \E r \in CallCompletionRequests : Call("Complete", r)

CallChatComplete == \E r \in CallChatRequests : Call("ChatComplete", r)

(* the caller's context is cancelled or its deadline passes *)
Cancel ==
    /\ pc \in {"idle", "attempt", "backoff"}
    /\ ~cancelled
    /\ cancelled' = TRUE
    /\ UNCHANGED <<provider, config, pc, op, req, normalized, renormalized,
                   adapterCalls, attempt, history, slept, result, callerMem,
                   adapter, response,
                   wire, shared, calls, util>>

(* one iteration of the loop of doWithRetry, and what the adapter does     *)
(* with what the transport returns                                         *)
DoAttempt(outcome, parsable, header, usage) ==
    /\ pc = "attempt"
    /\ cancelled => outcome = CtxErr
    /\ ~cancelled => outcome # CtxErr
    /\ history' = Append(history, outcome)
    /\ wire' = WireAfterAttempt(wire, outcome,
                   /\ outcome \notin {NetErr, CtxErr}
                   /\ shouldRetryStatus(outcome)
                   /\ attempt < NewAdapterMaxRetries(config))
    /\ LET maxRetries == NewAdapterMaxRetries(config) IN
       IF outcome \in {NetErr, CtxErr}
         THEN IF attempt < maxRetries /\ shouldRetryError(outcome)
                THEN /\ slept' = Append(slept, waitBeforeRetry(attempt))
                     /\ pc' = "backoff"
                     /\ result' = result
                     /\ response' = response
                ELSE /\ result' = PlainError(
                                     IF outcome = CtxErr THEN "context" ELSE "transport",
                                     0, attempt + 1)
                     /\ pc' = "done"
                     /\ slept' = slept
                     /\ response' = response
         ELSE IF shouldRetryStatus(outcome) /\ attempt < maxRetries
                THEN /\ slept' = Append(slept, waitBeforeRetry(attempt))
                     /\ pc' = "backoff"
                     /\ result' = result
                     /\ response' = response
                ELSE /\ response' = Response(outcome, parsable, header, usage)
                     /\ result' = AdapterReturn(provider,
                                      Response(outcome, parsable, header, usage))
                     /\ pc' = "done"
                     /\ slept' = slept
    /\ UNCHANGED <<provider, config, op, req, normalized, renormalized,
                   adapterCalls, attempt, cancelled, callerMem, adapter,
                   shared, calls, util>>

Attempt ==
    \E outcome \in Statuses \cup {NetErr, CtxErr}, parsable \in BOOLEAN,
       header \in Headers, usage \in BodyUsages \cup {NoUsage} :
        /\ (outcome = 200 /\ parsable) <=> usage \in BodyUsages
        /\ DoAttempt(outcome, parsable, header, usage)

(* time.Sleep returns: the loop continues with the next attempt *)
Wake ==
    /\ pc = "backoff"
    /\ attempt' = attempt + 1
    /\ pc' = "attempt"
    /\ UNCHANGED <<provider, config, op, req, normalized, renormalized,
                   adapterCalls, history, cancelled, slept, result, callerMem,
                   adapter, response,
                   wire, shared, calls, util>>

Next == CallComplete \/ CallChatComplete \/ Cancel \/ Attempt \/ Wake

Spec == Init /\ [][Next]_vars

(***************************************************************************)
(* Properties of the call state machine.                                   *)
(***************************************************************************)
Returned == pc = "done"

HTTPAttempts == Len(history)

LastOutcome == history[Len(history)]

(* C1: a call of a client whose Config has maxRetries = N makes at most    *)
(* N + 1 HTTP attempts, for every N >= 0, N = 0 included.                  *)
C1_AttemptsAtMostConfigPlusOne == HTTPAttempts <= config.MaxRetries + 1

(* C2: k retry-eligible failures in a row (k <= maxRetries) followed by a  *)
(* non-retryable response end the call after exactly k + 1 attempts with   *)
(* that response handed back: only a retry-eligible failure is followed by *)
(* another attempt, the loop does not give up at a retry-eligible failure  *)
(* while at most maxRetries attempts were made, and the response that is   *)
(* not retry-eligible is the one returned.                                 *)
C2_Eligible(o) == o \in {NetErr, CtxErr, 429, 500, 502, 503, 504}

C2_RetriesThenResponse ==
    (Returned /\ history # <<>>) =>
        /\ \A i \in 1..(HTTPAttempts - 1) : C2_Eligible(history[i])
        /\ C2_Eligible(LastOutcome) => HTTPAttempts >= config.MaxRetries + 1
        /\ ~C2_Eligible(LastOutcome) =>
              /\ result.status = LastOutcome
              /\ LastOutcome = 200 => (result.ok \/ result.cause = "json")

C2_Witness ==
    /\ Returned
    /\ config.MaxRetries = 3
    /\ history = <<500, 500, 200>>
    /\ result.ok

(* C3, as stated: while attempts remain, a response is retried if and only *)
(* if its status is 429 or any 5xx (500..599).                             *)
C3_SpecEligibleStatus(o) == o = 429 \/ (o >= 500 /\ o <= 599)

C3_RetriesExactly429And5xx ==
    /\ (pc = "backoff" /\ LastOutcome \notin {NetErr, CtxErr})
          => C3_SpecEligibleStatus(LastOutcome)
    /\ (Returned /\ history # <<>> /\ LastOutcome \notin {NetErr, CtxErr}
           /\ HTTPAttempts <= config.MaxRetries)
          => ~C3_SpecEligibleStatus(LastOutcome)

(* C3, amended: while attempts remain, a response is retried if and only   *)
(* if its status is 429, 500, 502, 503 or 504; a response with any other   *)
(* status (501 and 505..599 included) ends the loop after that attempt and *)
(* is handed as-is to the adapter.                                         *)
C3_CodeEligibleStatus(o) == o \in {429, 500, 502, 503, 504}

C3_RetriesExactlyListedStatuses ==
    /\ (pc = "backoff" /\ LastOutcome \notin {NetErr, CtxErr})
          => C3_CodeEligibleStatus(LastOutcome)
    /\ (Returned /\ history # <<>> /\ LastOutcome \notin {NetErr, CtxErr}
           /\ HTTPAttempts <= config.MaxRetries)
          => /\ ~C3_CodeEligibleStatus(LastOutcome)
             /\ result.status = LastOutcome

C3_Witness ==
    /\ Returned
    /\ history = <<429, 501>>
    /\ HTTPAttempts <= config.MaxRetries
    /\ result.status = 501

(* C4: once the caller's cancellation has fired during a call, the next    *)
(* step of the call is its return with the cancellation as the error: no   *)
(* further HTTP attempt is made and no backoff sleep runs to its end.      *)
C4_CancellationAbortsAtOnce ==
    [][(cancelled /\ pc \in {"attempt", "backoff"})
         => (pc' = "done" /\ history' = history /\ result'.cause = "context")]_vars

(* C5: a request that fails normalization causes no adapter call and no    *)
(* HTTP attempt, and the call returns an Error of kind validation tagged   *)
(* with the client's provider.                                             *)
C5_ValidationFailureStaysLocal ==
    (Returned /\ Normalize(op, provider, config, req).err # "") =>
        /\ adapterCalls = 0
        /\ history = <<>>
        /\ ~result.ok
        /\ result.classified
        /\ result.kind = "validation"
        /\ result.prov = provider

C5_Witness ==
    /\ Returned
    /\ op = "ChatComplete"
    /\ req.Messages = <<Msg("assistant", "x")>>
    /\ adapterCalls = 0
    /\ result.kind = "validation"

(* C6: every error returned by Complete or ChatComplete is a classified    *)
(* Error carrying a kind of the closed set and the provider identity.      *)
C6_EveryErrorClassified ==
    (Returned /\ ~result.ok) =>
        /\ result.classified
        /\ result.kind \in ErrorKinds
        /\ result.prov = provider

(* C7: for a non-success status handed back by the transport, the          *)
(* classified error of the adapter has kind authentication for 401/403,    *)
(* rateLimit for 429, validation for every other 4xx and provider for 5xx. *)
C7_ExpectedKind(s) ==
    IF s \in {401, 403} THEN "authentication"
    ELSE IF s = 429 THEN "rate_limit"
    ELSE IF s >= 400 /\ s <= 499 THEN "validation"
    ELSE "provider"

C7_AdapterKindFollowsStatusMap ==
    (Returned /\ result.classified /\ result.status >= 400 /\ result.status <= 599)
        => result.kind = C7_ExpectedKind(result.status)

(* C8: when every attempt of a call ends in a connection failure with no   *)
(* response, the returned error has kind network and the original          *)
(* transport error is reachable from it by unwrapping.                     *)
C8_ConnectionFailureIsNetworkKind ==
    (Returned /\ history # <<>> /\ \A i \in 1..Len(history) : history[i] = NetErr)
        => /\ ~result.ok
           /\ result.kind = "network"
           /\ result.cause = "transport"

(***************************************************************************)
(* Normalization on its own: a client normalizes a request, then           *)
(* normalizes the request it got back.                                     *)
(***************************************************************************)
NormTemperatures == {-1, 0, 7, 10, 15, 20, 25, NaN}

NormMaxTokens == {-1, 0, 1, 1024, 4096, 4097, 100000, 100001}

Opt(S) == {<<>>} \cup {<<v>> : v \in S}

StopOfLen(n) == [i \in 1..n |-> i]

StopLists == {StopOfLen(n) : n \in {0, 3, 4, 5, 10, 10 + MaxStopExtra}}

NormMessages ==
    {Msg("user", "x"), Msg("assistant", "x"), Msg("system", "x"),
     Msg("tool", "x"), Msg("", "x"), Msg("user", " ")}

SystemRun(n) == [i \in 1..n |-> Msg("system", "x")]

MessageLists ==
    UNION {[1..n -> NormMessages] : n \in 0..MaxMsgs}
      \cup {SystemRun(n) \o <<Msg(r, "x")>> :
                n \in {5, 6}, r \in {"user", "assistant"}}

NormCompletionRequests ==
    {CompletionReq(pr, t, m, st) :
        pr \in {" ", "hi"}, t \in Opt(NormTemperatures),
        m \in Opt(NormMaxTokens), st \in StopLists}

NormChatRequests ==
    {ChatReq(ms, t, m) :
        ms \in MessageLists, t \in Opt({7, 25, NaN}), m \in Opt({0, 4097})}

NormConfigs ==
    {[APIKey |-> KeyAnthropic, Timeout |-> 0, MaxRetries |-> 3,
      Temperature |-> t, MaxTokens |-> m] :
        t \in Opt({7, 15, 25, NaN}), m \in Opt({0, 100, 5000})}

InitNorm ==
    /\ provider \in KnownProviders
    /\ config \in NormConfigs
    /\ NewClient(provider, config) = ""
    /\ pc = "fresh"
    /\ op = ""
    /\ req = NoReq
    /\ normalized = NoReq
    /\ renormalized = NoReq
    /\ adapterCalls = 0
    /\ attempt = 0
    /\ history = <<>>
    /\ cancelled = FALSE
    /\ slept = <<>>
    /\ result = NoResult
    /\ callerMem = MemOf(NoReq)
    /\ adapter = provider
    /\ response = NoResponse
    /\ wire = NoWire
    /\ shared = ClientState(provider, config)
    /\ calls = <<>>
    /\ util = NoUtil

NormalizeRequest(o, r) ==
    /\ pc = "fresh"
    /\ op' = o
    /\ req' = r
    /\ LET n == Normalize(o, provider, config, r) IN
       IF n.err # ""
         THEN /\ result' = NormalizationFailed(provider, n.err)
              /\ pc' = "rejected"
              /\ normalized' = normalized
         ELSE /\ result' = result
              /\ pc' = "normalized"
              /\ normalized' = n.req
    /\ callerMem' = NormalizeStores(o, provider, config, r)
    /\ UNCHANGED <<provider, config, renormalized, adapterCalls, attempt,
                   history, cancelled, slept, adapter, response,
                   wire, shared, calls, util>>

NormalizeCompletion == \E r \in NormCompletionRequests : NormalizeRequest("Complete", r)

NormalizeChat == \E r \in NormChatRequests : NormalizeRequest("ChatComplete", r)

NormalizeAgain ==
    /\ pc = "normalized"
    /\ LET n == Normalize(op, provider, config, normalized) IN
       /\ renormalized' = n.req
       /\ result' = IF n.err # "" THEN NormalizationFailed(provider, n.err)
                    ELSE result
    /\ pc' = "renormalized"
    /\ UNCHANGED <<provider, config, op, req, normalized, adapterCalls,
                   attempt, history, cancelled, slept, callerMem, adapter,
                   response,
                   wire, shared, calls, util>>

NextNorm == NormalizeCompletion \/ NormalizeChat \/ NormalizeAgain

SpecNorm == InitNorm /\ [][NextNorm]_vars

(* C9: for every request that normalization accepts, the normalized        *)
(* temperature, if present, lies in [0, providerMaxTemperature] and the    *)
(* normalized maxTokens, if present, lies in (0, providerTokenLimit].      *)
C9_TemperatureInRange(t, p) ==
    t # NaN /\ 0 <= t /\ t <= (IF p = ProviderOpenAI THEN 20 ELSE 10)

C9_MaxTokensInRange(m, p) ==
    0 < m /\ m <= (CASE p = ProviderOpenAI -> 4096
                     [] p = ProviderAnthropic -> 100000
                     [] OTHER -> 8192)

C9_NormalizedInRange ==
    pc \in {"normalized", "renormalized"} =>
        /\ normalized.Temperature # <<>> =>
              C9_TemperatureInRange(normalized.Temperature[1], provider)
        /\ normalized.MaxTokens # <<>> =>
              C9_MaxTokensInRange(normalized.MaxTokens[1], provider)

(* C10: normalization is idempotent: normalizing an accepted request's     *)
(* normalized form again succeeds and gives an equal request.              *)
C10_NormalizeIdempotent ==
    pc = "renormalized" => (result = NoResult /\ renormalized = normalized)

C10_Witness ==
    /\ pc = "renormalized"
    /\ provider = ProviderAnthropic
    /\ req.Temperature = <<25>>
    /\ normalized.Temperature = <<10>>
    /\ renormalized = normalized
    /\ req.Stop = StopOfLen(10 + MaxStopExtra)
    /\ Len(normalized.Stop) = 10
    /\ req.MaxTokens = <<>>
    /\ normalized.MaxTokens = <<100>>

(***************************************************************************)
(* The normalizer on its own, for every provider and every Config of the   *)
(* model: validateAndNormalize{Completion,Chat}Request read only           *)
(* c.provider and c.config, whatever constructed the client.               *)
(***************************************************************************)
InitDirect ==
    /\ provider \in KnownProviders
    /\ config \in NormConfigs
    /\ pc = "fresh"
    /\ op = ""
    /\ req = NoReq
    /\ normalized = NoReq
    /\ renormalized = NoReq
    /\ adapterCalls = 0
    /\ attempt = 0
    /\ history = <<>>
    /\ cancelled = FALSE
    /\ slept = <<>>
    /\ result = NoResult
    /\ callerMem = MemOf(NoReq)
    /\ adapter = ""
    /\ response = NoResponse
    /\ wire = NoWire
    /\ shared = ClientState(provider, config)
    /\ calls = <<>>
    /\ util = NoUtil

SpecDirect == InitDirect /\ [][NextNorm]_vars

(* C11: a temperature or maxTokens given in the request takes precedence   *)
(* over the Config default (the normalized value is the request's own,     *)
(* clamped to the provider's range); when the request omits the field and  *)
(* the Config default lies inside the provider's range the default is      *)
(* copied; when the Config has no default or one outside the provider's    *)
(* range the field is left unset, never clamped.                           *)
C11_OwnTemperature(t, p) ==
    IF t # NaN /\ t > (IF p = ProviderOpenAI THEN 20 ELSE 10)
      THEN (IF p = ProviderOpenAI THEN 20 ELSE 10) ELSE t

C11_OwnMaxTokens(m, p) ==
    LET limit == CASE p = ProviderOpenAI -> 4096
                   [] p = ProviderAnthropic -> 100000
                   [] OTHER -> 8192
    IN IF m > limit THEN limit ELSE m

C11_TemperatureFilled ==
    IF req.Temperature # <<>>
      THEN normalized.Temperature = <<C11_OwnTemperature(req.Temperature[1], provider)>>
    ELSE IF config.Temperature # <<>>
              /\ C9_TemperatureInRange(config.Temperature[1], provider)
      THEN normalized.Temperature = config.Temperature
    ELSE normalized.Temperature = <<>>

C11_MaxTokensFilled ==
    IF req.MaxTokens # <<>>
      THEN normalized.MaxTokens = <<C11_OwnMaxTokens(req.MaxTokens[1], provider)>>
    ELSE IF config.MaxTokens # <<>>
              /\ C9_MaxTokensInRange(config.MaxTokens[1], provider)
      THEN normalized.MaxTokens = config.MaxTokens
    ELSE normalized.MaxTokens = <<>>

C11_DefaultFillPrecedence ==
    pc \in {"normalized", "renormalized"} =>
        (C11_TemperatureFilled /\ C11_MaxTokensFilled)

C11_Witness ==
    /\ pc = "normalized"
    /\ provider = ProviderAnthropic
    /\ config.Temperature = <<15>>
    /\ config.MaxTokens = <<5000>>
    /\ req.Temperature = <<>>
    /\ req.MaxTokens = <<>>
    /\ normalized.Temperature = <<>>
    /\ normalized.MaxTokens = <<5000>>

(* C12: a chat request that normalization accepts never has role assistant *)
(* on its first message that is not a system message; a conversation whose *)
(* first non-system message is assistant is always rejected, and the       *)
(* conversation-structure check answers it with the error "cannot start    *)
(* with assistant message" however many system messages precede it; that   *)
(* is the error of normalization whenever the request passed the           *)
(* structural validation that runs before the structure check.             *)
C12_StartsWithAssistant(messages) ==
    \E i \in 1..Len(messages) :
        /\ messages[i].Role = "assistant"
        /\ \A j \in 1..(i - 1) : messages[j].Role = "system"

C12_CannotStart == "conversation cannot start with assistant message"

NewProviders == KnownProviders \cup {"invalid", ""}

NewConfigs ==
    {[APIKey |-> k, Timeout |-> to, MaxRetries |-> n,
      Temperature |-> t, MaxTokens |-> m] :
        k \in APIKeys, to \in {-1, 0, 30}, n \in {-1, 0, MaxRetriesBound},
        t \in Opt({-1, 7, 15, 25, NaN}), m \in Opt({0, 100, 5000, 100001})}

InitNew ==
    /\ provider \in NewProviders
    /\ config \in NewConfigs
    /\ pc = "unbuilt"
    /\ op = ""
    /\ req = NoReq
    /\ normalized = NoReq
    /\ renormalized = NoReq
    /\ adapterCalls = 0
    /\ attempt = 0
    /\ history = <<>>
    /\ cancelled = FALSE
    /\ slept = <<>>
    /\ result = NoResult
    /\ callerMem = MemOf(NoReq)
    /\ adapter = ""
    /\ response = NoResponse
    /\ wire = NoWire
    /\ shared = ClientState(provider, config)
    /\ calls = <<>>
    /\ util = NoUtil

ConstructionError(kind, message) ==
    [ClassifiedError(kind, provider, 0, "") EXCEPT !.msg = message]

CallNewClient ==
    /\ pc = "unbuilt"
    /\ op' = "NewClient"
    /\ adapter' = NewClientBuilt(provider, config)
    /\ IF NewClient(provider, config) = ""
         THEN /\ result' = OkResult(0)
              /\ pc' = "built"
         ELSE /\ result' = ConstructionError(NewClient(provider, config),
                                             NewClientMessage(provider, config))
              /\ pc' = "refused"
    /\ UNCHANGED <<provider, config, req, normalized, renormalized,
                   adapterCalls, attempt, history, cancelled, slept, callerMem,
                   response,
                   wire, shared, calls, util>>

CallCreateAdapter ==
    /\ pc = "unbuilt"
    /\ op' = "CreateAdapter"
    /\ adapter' = CreateAdapterBuilt(provider, config)
    /\ IF CreateAdapter(provider, config) = ""
         THEN /\ result' = OkResult(0)
              /\ pc' = "built"
         ELSE /\ result' = ConstructionError(CreateAdapter(provider, config),
                                             CreateAdapterMessage(provider, config))
              /\ pc' = "refused"
    /\ UNCHANGED <<provider, config, req, normalized, renormalized,
                   adapterCalls, attempt, history, cancelled, slept, callerMem,
                   response,
                   wire, shared, calls, util>>

CallConfigValidate ==
    /\ pc = "unbuilt"
    /\ op' = "Validate"
    /\ config' = ConfigAfterValidate(config, provider)
    /\ result' = IF ConfigValidate(config, provider) = "" THEN OkResult(0)
                 ELSE [PlainError("", 0, 0) EXCEPT
                          !.msg = ConfigValidate(config, provider)]
    /\ pc' = "validated"
    /\ UNCHANGED <<provider, req, normalized, renormalized, adapterCalls,
                   attempt, history, cancelled, slept, callerMem, adapter,
                   response,
                   wire, shared, calls, util>>

NextNew == CallNewClient \/ CallCreateAdapter \/ CallConfigValidate

SpecNew == InitNew /\ [][NextNew]_vars

(* C14: every failure of NewClient for an implemented provider, being a    *)
(* failure caused by the shape of the Config (API key, timeout, retries,   *)
(* default temperature or maxTokens outside what that provider accepts),   *)
(* is an error of kind validation, and a NewClient that fails has          *)
(* constructed no adapter.                                                 *)
C14_ConfigFailureIsValidation ==
    (op = "NewClient" /\ pc = "refused") =>
        /\ adapter = ""
        /\ provider \in {ProviderOpenAI, ProviderAnthropic} =>
              (result.classified /\ result.kind = "validation")

(* C15: Config.Validate applies the checks apiKey non-blank, provider      *)
(* membership, apiKey shape, timeout >= 0, maxRetries >= 0, temperature in *)
(* [0, 2.0], maxTokens > 0, maxTokens <= provider limit in this order and  *)
(* returns the error of the first failing check only, no error exactly     *)
(* when every check passes, and leaves the caller's Config unchanged.      *)
C15_KeyShapeOK(k, p) ==
    CASE p = ProviderOpenAI -> HasPrefixSk(k) /\ KeyLen(k) >= 20
      [] p = ProviderAnthropic -> HasPrefixSkAnt(k) /\ KeyLen(k) >= 20
      [] OTHER -> KeyLen(k) >= 20

C15_ProviderLimit(p) ==
    CASE p = ProviderOpenAI -> 4096
      [] p = ProviderAnthropic -> 100000
      [] p = ProviderGoogle -> 8192
      [] OTHER -> 4096

C15_Checks(c, p) ==
    << KeyLen(c.APIKey) > 0,
       p \in {ProviderOpenAI, ProviderAnthropic, ProviderGoogle},
       C15_KeyShapeOK(c.APIKey, p),
       c.Timeout >= 0,
       c.MaxRetries >= 0,
       c.Temperature = <<>> \/ (c.Temperature[1] # NaN /\ 0 <= c.Temperature[1]
                                   /\ c.Temperature[1] <= 20),
       c.MaxTokens = <<>> \/ c.MaxTokens[1] > 0,
       c.MaxTokens = <<>> \/ c.MaxTokens[1] <= C15_ProviderLimit(p) >>

C15_FirstFailing(c, p) ==
    LET failing == {i \in 1..8 : ~C15_Checks(c, p)[i]}
    IN IF failing = {} THEN 0 ELSE CHOOSE i \in failing : \A j \in failing : i <= j

C15_CheckOfMessage(m) ==
    CASE m = "" -> 0
      [] m = "API key is required" -> 1
      [] m = "unsupported provider" -> 2
      [] m \in {"OpenAI API key should start with 'sk-'",
                "OpenAI API key appears to be too short",
                "Anthropic API key should start with 'sk-ant-'",
                "Anthropic API key appears to be too short",
                "Google API key appears to be too short"} -> 3
      [] m = "timeout must be non-negative" -> 4
      [] m = "max retries must be non-negative" -> 5
      [] m = "temperature must be between 0.0 and 2.0" -> 6
      [] m = "max tokens must be positive" -> 7
      [] m = "max tokens exceeds provider limit" -> 8
      [] OTHER -> 9

C15_ValidateFirstFailureOnly ==
    [][(pc = "unbuilt" /\ op' = "Validate") =>
          /\ C15_CheckOfMessage(result'.msg) = C15_FirstFailing(config, provider)
          /\ result'.ok <=> C15_FirstFailing(config, provider) = 0
          /\ config' = config]_vars

(* C16: constructing an adapter for the declared but unimplemented         *)
(* provider (Google) with an otherwise valid Config fails with an error of *)
(* kind provider that names Google, and a provider identifier outside the  *)
(* known set fails with an error of kind validation, "unsupported          *)
(* provider"; neither case gets the other's kind or message.               *)
C16_GoogleIsProviderKindUnknownIsValidation ==
    (op \in {"NewClient", "CreateAdapter"} /\ pc \in {"built", "refused"}) =>
        /\ provider \notin {ProviderOpenAI, ProviderAnthropic, ProviderGoogle} =>
              /\ pc = "refused"
              /\ result.kind = "validation"
              /\ result.msg = "unsupported provider"
              /\ result.prov = provider
        /\ (provider = ProviderGoogle /\ C15_FirstFailing(config, provider) = 0) =>
              /\ pc = "refused"
              /\ result.kind = "provider"
              /\ result.prov = ProviderGoogle
              /\ result.msg = "Google adapter not yet implemented"

C16_Witness ==
    /\ op = "NewClient"
    /\ pc = "refused"
    /\ provider = ProviderGoogle
    /\ config.APIKey = KeyPlain
    /\ config.Temperature = <<7>>
    /\ result.kind = "provider"
    /\ result.prov = ProviderGoogle
    /\ adapter = ""

(* C17: every successful response returned by the OpenAI or the Anthropic  *)
(* adapter has Usage.totalTokens = promptTokens + completionTokens,        *)
(* whatever total the provider's body supplied.                            *)
C17_TotalIsSum ==
    (Returned /\ result.ok) =>
        result.usage.TotalTokens =
            result.usage.PromptTokens + result.usage.CompletionTokens

(* C18: for OpenAI and for Anthropic, ChatComplete with a valid chat       *)
(* request whose transport answers 200 with a well-formed body issues      *)
(* exactly one call through the transport and returns a ChatResponse       *)
(* without error.                                                          *)
C18_ChatCompleteSupported ==
    (/\ Returned
     /\ op = "ChatComplete"
     /\ Normalize(op, provider, config, req).err = ""
     /\ history \in {<<>>, <<200>>}
     /\ history = <<200>> => response.parsable)
        => (HTTPAttempts = 1 /\ result.ok)

(* C19: when the provider answers 429 with a Retry-After header of n       *)
(* seconds, the rateLimit error the adapter returns has retryAfter = n.    *)
C19_RetryAfterIsProviderHint ==
    (/\ Returned
     /\ response.status = 429
     /\ response.header > 0
     /\ result.classified
     /\ result.kind = "rate_limit")
        => result.retryAfter = <<response.header>>

(* C20: only failures of kind rateLimit or network are retried: after an   *)
(* HTTP response the transport waits for another attempt only if the kind  *)
(* the response's status maps to is retryable, IsRetryable holds exactly   *)
(* for rateLimit and network, and the adapter is called once per call and  *)
(* makes no attempts beyond the transport's bounded loop.                  *)
C20_KindOfStatus(s) ==
    IF s \in {401, 403} THEN "authentication"
    ELSE IF s = 429 THEN "rate_limit"
    ELSE IF s >= 400 /\ s <= 499 THEN "validation"
    ELSE IF s >= 500 THEN "provider"
    ELSE "network"

C20_OnlyRetryableKindsRetried ==
    /\ (pc = "backoff" /\ LastOutcome \notin {NetErr, CtxErr})
          => C20_KindOfStatus(LastOutcome) \in {"rate_limit", "network"}
    /\ \A k \in ErrorKinds : IsRetryable(k) <=> k \in {"rate_limit", "network"}
    /\ adapterCalls <= 1
    /\ HTTPAttempts <= NewAdapterMaxRetries(config) + 1

(* C21: when all maxRetries + 1 attempts of the transport end in a         *)
(* retry-eligible failure (a transport error or a 429/5xx response), the   *)
(* transport returns no response but an error, which carries the attempt   *)
(* count and wraps the last observed failure.                              *)
C21_RetryEligible(o) ==
    o \in {NetErr, CtxErr} \/ o = 429 \/ (o >= 500 /\ o <= 599 /\ shouldRetryStatus(o))

C21_ExhaustionReturnsCountedError ==
    (/\ Returned
     /\ HTTPAttempts = NewAdapterMaxRetries(config) + 1
     /\ C21_RetryEligible(LastOutcome))
        => /\ ~result.ok
           /\ response = NoResponse
           /\ result.attempts = HTTPAttempts
           /\ result.cause \in {"transport", "context"} \/ result.status = LastOutcome

(* C22: every HTTP response body received during a call is closed by the  *)
(* time the call returns, on every exit path: success, classified error,   *)
(* a retried response and retry exhaustion.                                *)
C22_ResponsesReceived ==
    Cardinality({i \in 1..Len(history) : history[i] \notin {NetErr, CtxErr}})

C22_NoBodyLeftOpen ==
    /\ wire.open >= 0
    /\ Returned => wire.open = 0

C22_Witness ==
    /\ Returned
    /\ history = <<503, 429, 401>>
    /\ C22_ResponsesReceived = 3
    /\ result.classified
    /\ wire.open = 0

(* C26: every attempt made within one transport call sends the same        *)
(* method, URL, headers and request body as the first attempt, namely the  *)
(* request Post built: the body is replayed verbatim on each retry.        *)
C26_EveryAttemptSendsTheSameRequest ==
    /\ Len(wire.sent) = Len(history)
    /\ \A i \in 1..Len(wire.sent) :
          /\ wire.sent[i] = wire.sent[1]
          /\ wire.sent[i] = wire.request

C26_Witness ==
    /\ Returned
    /\ Len(wire.sent) = 3
    /\ history = <<NetErr, 503, 200>>
    /\ wire.sent[3].method = "POST"
    /\ wire.sent[3].body # EmptyBody
    /\ wire.sent[3].body = wire.sent[1].body

(***************************************************************************)
(* Concurrent calls on one client.  Each call keeps its own request,       *)
(* attempt counter and answers; the client, its adapter and the transport  *)
(* are the one shared state all calls read.  A step of a call is one       *)
(* Complete/ChatComplete up to its first httpClient.Do, or one iteration   *)
(* of doWithRetry; steps of different calls interleave freely.             *)
(***************************************************************************)
MaxCalls == 2

Answer(outcome, parsable, usage) ==
    [outcome |-> outcome, parsable |-> parsable, usage |-> usage]

ConcAnswers ==
    {Answer(NetErr, FALSE, NoUsage), Answer(503, FALSE, NoUsage),
     Answer(200, TRUE, BodyUsage(3, 4, 7))}

ConcCall(pcOfCall, o, r, a, answers, res) ==
    [pc |-> pcOfCall, op |-> o, req |-> r, attempt |-> a,
     answers |-> answers, result |-> res]

NewCall == ConcCall("idle", "", NoReq, 0, <<>>, NoResult)

(* client.Complete / client.ChatComplete up to the first httpClient.Do *)
StartCall(sh, o, r) ==
    LET n == Normalize(o, sh.provider, sh.config, r) IN
    IF n.err # ""
      THEN ConcCall("done", o, r, 0, <<>>,
                    NormalizationFailed(sh.provider, n.err))
    ELSE IF sh.provider = ProviderOpenAI /\ o = "ChatComplete"
      THEN ConcCall("done", o, r, 0, <<>>, PlainError("", 0, 0))
    ELSE IF MarshalFails(sh.provider, sh.config, n.req)
      THEN ConcCall("done", o, r, 0, <<>>, PlainError("json", 0, 0))
    ELSE ConcCall("attempt", o, r, 0, <<>>, NoResult)

(* one iteration of doWithRetry, with its wait when it retries, and what   *)
(* the adapter does with what the transport returns                        *)
AttemptOfCall(sh, c, ans) ==
    LET seen == [c EXCEPT !.answers = Append(@, ans)] IN
    IF ans.outcome \in {NetErr, CtxErr}
      THEN IF c.attempt < sh.maxRetries /\ shouldRetryError(ans.outcome)
             THEN [seen EXCEPT !.attempt = @ + 1]
             ELSE [seen EXCEPT !.pc = "done",
                               !.result = PlainError("transport", 0, c.attempt + 1)]
    ELSE IF shouldRetryStatus(ans.outcome) /\ c.attempt < sh.maxRetries
      THEN [seen EXCEPT !.attempt = @ + 1]
    ELSE [seen EXCEPT !.pc = "done",
                      !.result = AdapterReturn(sh.provider,
                                     Response(ans.outcome, ans.parsable, 0,
                                              ans.usage))]

(* a step of a call stores into a field of the transport: the retry budget *)
SharedAfterStep_SpendsBudget(sh, c) ==
    [sh EXCEPT !.maxRetries = IF c.attempt > 0 THEN 0 ELSE @]

(* the shared state after a step of a call: client.Complete, the adapters, *)
(* Post and doWithRetry only read the fields of their receivers            *)
SharedAfterStep(sh, c) == sh

(* the same call made on its own on a client just built *)
RECURSIVE Replay(_, _, _)
Replay(sh, c, answers) ==
    IF c.pc = "done" \/ answers = <<>> THEN c
    ELSE Replay(sh, AttemptOfCall(sh, c, Head(answers)), Tail(answers))

RunAlone(sh, o, r, answers) == Replay(sh, StartCall(sh, o, r), answers)

ConcConfigs == {c \in CallConfigs : c.MaxRetries \in {1, 2}}

ConcCompletionRequests ==
    {CompletionReq(pr, <<7>>, <<>>, <<>>) : pr \in {"", "hi"}}

ConcChatRequests == {ChatReq(<<Msg("user", "x")>>, <<>>, <<>>)}

InitConc ==
    /\ provider \in KnownProviders
    /\ config \in ConcConfigs
    /\ NewClient(provider, config) = ""
    /\ pc = "idle"
    /\ op = ""
    /\ req = NoReq
    /\ normalized = NoReq
    /\ renormalized = NoReq
    /\ adapterCalls = 0
    /\ attempt = 0
    /\ history = <<>>
    /\ cancelled = FALSE
    /\ slept = <<>>
    /\ result = NoResult
    /\ callerMem = MemOf(NoReq)
    /\ adapter = provider
    /\ response = NoResponse
    /\ wire = NoWire
    /\ shared = ClientState(provider, config)
    /\ calls = [i \in 1..MaxCalls |-> NewCall]
    /\ util = NoUtil

ConcStart(i, o, r) ==
    /\ calls[i].pc = "idle"
    /\ calls' = [calls EXCEPT ![i] = StartCall(shared, o, r)]
    /\ shared' = SharedAfterStep(shared, calls'[i])
    /\ UNCHANGED <<provider, config, pc, op, req, normalized, renormalized,
                   adapterCalls, attempt, history, cancelled, slept, result,
                   callerMem, adapter, response, wire, util>>

ConcComplete ==
    \E i \in 1..MaxCalls, r \in ConcCompletionRequests :
        ConcStart(i, "Complete", r)

ConcChatComplete ==
    \E i \in 1..MaxCalls, r \in ConcChatRequests :
        ConcStart(i, "ChatComplete", r)

ConcAttempt ==
    \E i \in 1..MaxCalls, ans \in ConcAnswers :
        /\ calls[i].pc = "attempt"
        /\ calls' = [calls EXCEPT ![i] = AttemptOfCall(shared, calls[i], ans)]
        /\ shared' = SharedAfterStep(shared, calls'[i])
        /\ UNCHANGED <<provider, config, pc, op, req, normalized,
                       renormalized, adapterCalls, attempt, history, cancelled,
                       slept, result, callerMem, adapter, response, wire, util>>

NextConc == ConcComplete \/ ConcChatComplete \/ ConcAttempt

SpecConc == InitConc /\ [][NextConc]_vars

MaxAttemptIndex == 64

MaxMapMsgs == 3

UtilTemperatures == {-1, 0, 5, 10, 12, 20, 30, NaN}

UtilMessages ==
    {Msg(r, c) : r \in {"system", "user", "assistant", "tool"},
                 c \in {"", "x", "y"}}

UtilMessageLists == UNION {[1..n -> UtilMessages] : n \in 0..MaxMapMsgs}

UtilInputs ==
    {UtilInput(src, tgt, t, <<>>, 0, <<>>) :
        src \in KnownProviders, tgt \in KnownProviders, t \in UtilTemperatures}
      \cup {UtilInput(ProviderOpenAI, tgt, 7, st, 0, <<>>) :
                tgt \in KnownProviders, st \in StopLists}
      \cup {UtilInput(ProviderOpenAI, ProviderOpenAI, 7, <<>>, a, <<>>) :
                a \in 0..MaxAttemptIndex}
      \cup {UtilInput(ProviderOpenAI, ProviderAnthropic, 7, <<>>, 0, ms) :
                ms \in UtilMessageLists}

InitUtil ==
    /\ provider \in {ProviderAnthropic}
    /\ config \in {c \in CallConfigs : c.APIKey = KeyAnthropic /\ c.MaxRetries = 0}
    /\ pc = "idle"
    /\ op = ""
    /\ req = NoReq
    /\ normalized = NoReq
    /\ renormalized = NoReq
    /\ adapterCalls = 0
    /\ attempt = 0
    /\ history = <<>>
    /\ cancelled = FALSE
    /\ slept = <<>>
    /\ result = NoResult
    /\ callerMem = MemOf(NoReq)
    /\ adapter = ""
    /\ response = NoResponse
    /\ wire = NoWire
    /\ shared = ClientState(provider, config)
    /\ calls = <<>>
    /\ util \in UtilInputs

Returns(fn, out) ==
    /\ util.fn = ""
    /\ util' = [util EXCEPT !.fn = fn, !.out = out]
    /\ UNCHANGED <<provider, config, pc, op, req, normalized, renormalized,
                   adapterCalls, attempt, history, cancelled, slept, result,
                   callerMem, adapter, response, wire, shared, calls>>

CallMapTemperature ==
    Returns("MapTemperature",
            [NoOut EXCEPT !.temperature =
                <<MapTemperature(util.source, util.target, util.temperature)>>])

CallMapStopSequences ==
    Returns("MapStopSequences",
            [NoOut EXCEPT !.stop = MapStopSequences(util.target, util.stop)])

CallWaitBeforeRetry ==
    Returns("waitBeforeRetry",
            [NoOut EXCEPT !.wait = <<waitBeforeRetry(util.attempt)>>])

CallMapChatRequest ==
    Returns("mapChatRequest",
            [NoOut EXCEPT !.body =
                mapChatRequest(config, ChatReq(util.messages, <<>>, <<>>))])

NextUtil ==
    \/ CallMapTemperature
    \/ CallMapStopSequences
    \/ CallWaitBeforeRetry
    \/ CallMapChatRequest

SpecUtil == InitUtil /\ [][NextUtil]_vars

(* C24: for every attempt index a that is followed by a retry, the wait    *)
(* before the retry is exactly min(30 s, 1 s * 2^a), however large the     *)
(* permitted maxRetries and so the index.                                  *)
C24_SpecWait(a) == IF a >= 5 THEN 30 ELSE 2 ^ a

C24_WaitIsCappedExponential ==
    util.fn = "waitBeforeRetry" => util.out.wait = <<C24_SpecWait(util.attempt)>>

(* C25: a stop list longer than the provider's maximum (4 for OpenAI, 10   *)
(* for Anthropic, 5 for Google) is truncated to its first maximum entries  *)
(* in their order and the request is not rejected for it; a list within    *)
(* the maximum is passed through unchanged.  The same holds of             *)
(* MapStopSequences for its target provider.                               *)
C25_ProviderMaxStop(p) ==
    IF p = ProviderOpenAI THEN 4
    ELSE IF p = ProviderAnthropic THEN 10
    ELSE 5

C25_Expected(stop, p) ==
    IF Len(stop) > C25_ProviderMaxStop(p)
      THEN [i \in 1..C25_ProviderMaxStop(p) |-> stop[i]]
      ELSE stop

C25_StopTruncatedNotRejected ==
    /\ (op = "Complete" /\ pc \in {"normalized", "renormalized"})
          => normalized.Stop = C25_Expected(req.Stop, provider)
    /\ (op = "Complete" /\ pc = "rejected")
          => Normalize(op, provider, config, [req EXCEPT !.Stop = <<>>]).err # ""
    /\ util.fn = "MapStopSequences"
          => util.out.stop = C25_Expected(util.stop, util.target)

C25_Witness ==
    /\ op = "Complete"
    /\ pc = "normalized"
    /\ provider = ProviderGoogle
    /\ Len(req.Stop) = 10
    /\ normalized.Stop = <<1, 2, 3, 4, 5>>

(* C29: for every source provider, target provider and input temperature,  *)
(* MapTemperature returns a value within [0, the maximum temperature of    *)
(* the target provider].                                                   *)
C29_MappedTemperatureInTargetRange ==
    util.fn = "MapTemperature" =>
        /\ FGe(util.out.temperature[1], 0)
        /\ FLe(util.out.temperature[1], GetProviderMaxTemperature(util.target))

(* C28: chat normalization runs structural validation, then the            *)
(* conversation-structure check, then clamping and default-fill: a request *)
(* with an empty message list is rejected with "messages are required", a  *)
(* request that violates both a per-message rule and a structure rule is   *)
(* rejected with the per-message error, and a value that validation        *)
(* rejects is never clamped into range instead.                            *)
C28_BadMessages(r) ==
    {i \in 1..Len(r.Messages) : ValidateMessage(r.Messages[i]) # ""}

C28_PerMessageError(r) ==
    IF C28_BadMessages(r) = {} THEN ""
    ELSE ValidateMessage(
             r.Messages[CHOOSE i \in C28_BadMessages(r) :
                            \A j \in C28_BadMessages(r) : i <= j])

C28_StepsInOrder ==
    (op = "ChatComplete" /\ pc \in {"normalized", "rejected"}) =>
        /\ Len(req.Messages) = 0 =>
              (pc = "rejected" /\ result.msg = "messages are required")
        /\ (/\ C28_PerMessageError(req) # ""
            /\ validateConversationStructure(provider, req.Messages) # "")
              => (pc = "rejected" /\ result.msg = C28_PerMessageError(req))
        /\ (C28_PerMessageError(req) = "" /\ req.MaxTokens = <<0>>
               /\ Len(req.Messages) > 0)
              => (pc = "rejected" /\ result.msg = "max_tokens must be positive")

C28_Witness ==
    /\ op = "ChatComplete"
    /\ pc = "rejected"
    /\ req.Messages = <<Msg("assistant", "x"), Msg("", "x")>>
    /\ validateConversationStructure(provider, req.Messages)
           = "conversation cannot start with assistant message"
    /\ result.msg = "role is required"

(* C27, as stated: the Anthropic mapping of a chat request puts all system *)
(* messages, joined in their order with the separator, in the system field *)
(* and the wire message array is exactly the other messages in their order *)
(* with roles and contents unchanged.                                      *)
C27_IsSystem(m) == m.Role = "system"

C27_IsNotSystem(m) == m.Role # "system"

RECURSIVE C27_Join(_)
C27_Join(ms) ==
    IF ms = <<>> THEN <<>>
    ELSE IF Len(ms) = 1 THEN Text(ms[1].Content)
    ELSE Text(ms[1].Content) \o <<Separator>> \o C27_Join(Tail(ms))

C27_Unchanged(m) == WireMsg(m.Role, Text(m.Content))

C27_AsStated(msgs, body) ==
    LET others == SelectSeq(msgs, C27_IsNotSystem) IN
    /\ body.System = C27_Join(SelectSeq(msgs, C27_IsSystem))
    /\ body.Messages = [i \in 1..Len(others) |-> C27_Unchanged(others[i])]

C27_SystemLiftedOthersUnchanged ==
    /\ util.fn = "mapChatRequest" => C27_AsStated(util.messages, util.out.body)
    /\ (op = "ChatComplete" /\ provider = ProviderAnthropic /\ wire.sent # <<>>)
          => C27_AsStated(normalized.Messages, wire.sent[1].body)

(* C27, amended: the system field is the contents of the system messages   *)
(* joined in their order with the separator, system messages with empty    *)
(* content before the first non-empty one contributing nothing; the wire   *)
(* message array is the other messages in their order, a user or assistant *)
(* message with role and content unchanged and a message of any other role *)
(* as a user message whose content is "[role]: content".  For a request    *)
(* that passed normalization this is the claim as stated.                  *)
RECURSIVE C27_DropLeadingEmpty(_)
C27_DropLeadingEmpty(ms) ==
    IF ms = <<>> THEN <<>>
    ELSE IF ms[1].Content = "" THEN C27_DropLeadingEmpty(Tail(ms))
    ELSE ms

C27_Converted(m) ==
    IF m.Role \in {"user", "assistant"} THEN C27_Unchanged(m)
    ELSE WireMsg("user", <<"[">> \o Text(m.Role) \o <<"]: ">> \o Text(m.Content))

C27_AsCoded(msgs, body) ==
    LET others == SelectSeq(msgs, C27_IsNotSystem) IN
    /\ body.System = C27_Join(C27_DropLeadingEmpty(SelectSeq(msgs, C27_IsSystem)))
    /\ body.Messages = [i \in 1..Len(others) |-> C27_Converted(others[i])]

C27_SystemLiftedOthersConverted ==
    /\ util.fn = "mapChatRequest" => C27_AsCoded(util.messages, util.out.body)
    /\ (op = "ChatComplete" /\ provider = ProviderAnthropic /\ wire.sent # <<>>)
          => /\ C27_AsCoded(normalized.Messages, wire.sent[1].body)
             /\ C27_AsStated(normalized.Messages, wire.sent[1].body)

C27_Witness ==
    /\ util.fn = "mapChatRequest"
    /\ util.messages = <<Msg("system", "x"), Msg("tool", "y"), Msg("system", "y")>>
    /\ util.out.body.System = <<"x", Separator, "y">>
    /\ util.out.body.Messages = <<WireMsg("user", <<"[", "tool", "]: ", "y">>)>>

(* C30: every chat request that passes normalization for Anthropic is sent *)
(* with at least one entry in the wire message array; a conversation made  *)
(* only of system messages is never dispatched to the provider.            *)
C30_OnlySystemMessages(messages) ==
    \A i \in 1..Len(messages) : messages[i].Role = "system"

C30_WireMessagesNonEmpty ==
    (provider = ProviderAnthropic /\ op = "ChatComplete")
        => /\ \A i \in 1..Len(wire.sent) : Len(wire.sent[i].body.Messages) >= 1
           /\ C30_OnlySystemMessages(req.Messages) => wire.sent = <<>>

====
